---------------------------- MODULE Spec2Model ----------------------------
(***************************************************************************)
(* A model of lookr's daemon (lookr-daemon/src): the in-memory index of    *)
(* index.rs, the indexing pipeline and the filesystem watcher of           *)
(* indexer.rs, the query handler of rpc.rs and the process structure of    *)
(* main.rs.                                                                *)
(*                                                                         *)
(* A path is a sequence of one-character strings, "/" being the separator. *)
(***************************************************************************)
EXTENDS Integers, Sequences, FiniteSets, Bags, TLC

VARIABLES
    \* ---- index.rs ----
    data,       \* Index.data: key -> set of stored path strings
    stored,     \* history: the paths inserted into `data` and not removed since
    ret,        \* the Vec returned by the Index::query just made (empty after
                \* any other call)
    retq,       \* the argument of that query (NoQuery after any other call)
    iact,       \* history: the call just made on the Index, its path or query,
                \* and whether the path was stored when the call was made
    \* ---- main.rs ----
    mpc,        \* main: "start", "serve" (indexer thread spawned), "serving",
                \* "exited"
    \* ---- indexer.rs, Indexer::index ----
    paths,      \* self.paths: the configured roots, in order
    ipc,        \* position of the indexer thread
    iret,       \* what Indexer::index returned ("running" until it returns)
    wroot,      \* index into paths of the root being walked
    counter,    \* let mut counter
    last_change,\* let mut last_change
    working,    \* the writer's view: committed documents and buffered operations
    committed,  \* the documents of the last successful commit (a bag of paths)
    chan,       \* the WatchEvent channel from the watcher to the indexer
    \* ---- indexer.rs, FsWatcher ----
    wpc,        \* position of the watcher thread
    wi,         \* index into paths of the root being registered
    watched,    \* the roots with a registered OS watch
    nq,         \* notify's channel to the watch loop: nq.n copies of nq.ev queued
    \* ---- rpc.rs, LookrService::query ----
    qh,         \* the query handler in flight
    resp,       \* the response of the handler that finished last
    \* ---- environment and history ----
    scn,        \* what the environment may do: burst sizes and events
    left,       \* how many bursts and faults the environment may still cause
    applied,    \* history: every operation buffered by the writer, in order
    ncommit,    \* history: how many of them the last successful commit covered
    fresh,      \* history: events received since the last call of commit()
    lastrecv,   \* history: how the last recv_timeout ended ("none" before any);
                \* "flush" for a timeout, or a run of timeouts, that began
                \* with mutations buffered since the last commit()
    act,        \* history: what the indexer's last step did: the operation, the
                \* outcome of its commit() if it made one, and fresh and
                \* lastrecv as they were before it
    obs         \* history: nowatch, the roots whose watch registration failed
                \* (the error! line of FsWatcher::watch); got, the
                \* notifications the watch loop received; put, the events the
                \* indexer received

ivars == <<data, stored, ret, retq, iact>>
pvars == <<mpc, paths, ipc, iret, wroot, counter, last_change, working,
           committed, chan, wpc, wi, watched, nq, qh, resp, scn, left,
           applied, ncommit, fresh, lastrecv, act, obs>>
vars == <<data, stored, ret, retq, iact, pvars>>

-----------------------------------------------------------------------------
(* Strings                                                                 *)

\* str::contains: q occurs in s as a contiguous run (always, when q is empty).
Contains(s, q) ==
    \E i \in 0..(Len(s) - Len(q)) : SubSeq(s, i + 1, i + Len(q)) = q

\* A set as a Vec in some iteration order (HashSet iteration order).
RECURSIVE SetToVec(_)
SetToVec(S) ==
    IF S = {} THEN <<>>
    ELSE LET x == CHOOSE y \in S : TRUE
         IN  <<x>> \o SetToVec(S \ {x})

\* The elements of a sequence.
Range(s) == {s[i] : i \in DOMAIN s}

-----------------------------------------------------------------------------
(* index.rs: IndexItem and Index                                           *)

\* The pieces of a path string between separators.
RECURSIVE Segs(_, _, _)
Segs(s, i, cur) ==
    IF i > Len(s) THEN <<cur>>
    ELSE IF s[i] = "/" THEN <<cur>> \o Segs(s, i + 1, <<>>)
    ELSE Segs(s, i + 1, Append(cur, s[i]))

\* Path::components() filtered on Component::Normal: the non-empty pieces
\* other than "." and "..".
IsNormal(c) == c # <<>> /\ c # <<".">> /\ c # <<".", ".">>

NormalComponents(pb) == SelectSeq(Segs(pb, 1, <<>>), IsNormal)

\* impl From<PathBuf> for IndexItem
IndexItemFrom(pb) == [keys |-> NormalComponents(pb), value |-> pb]

\* Index::new
IndexNew == <<>>

\* Index::insert: the value joins the set of each of the entry's keys.
RECURSIVE InsertKeys(_, _, _)
InsertKeys(d, keys, v) ==
    IF keys = <<>> THEN d
    ELSE LET k  == Head(keys)
             d1 == IF k \in DOMAIN d
                   THEN [d EXCEPT ![k] = @ \cup {v}]
                   ELSE d @@ (k :> {v})
         IN  InsertKeys(d1, Tail(keys), v)

\* Index::insert filing the value under the last of the entry's keys only.
IndexInsertLastKey(d, entry) ==
    IF entry.keys = <<>> THEN d
    ELSE InsertKeys(d, <<entry.keys[Len(entry.keys)]>>, entry.value)


IndexInsert(d, entry) == InsertKeys(d, entry.keys, entry.value)

\* Index::remove: the value leaves the set of each of the entry's keys that
\* the map holds; a set left empty is dropped with its key.
RECURSIVE RemoveKeys(_, _, _)
RemoveKeys(d, keys, v) ==
    IF keys = <<>> THEN d
    ELSE LET k  == Head(keys)
             d1 == IF k \in DOMAIN d
                   THEN IF d[k] \ {v} = {}
                        THEN [x \in DOMAIN d \ {k} |-> d[x]]
                        ELSE [d EXCEPT ![k] = @ \ {v}]
                   ELSE d
         IN  RemoveKeys(d1, Tail(keys), v)

\* Index::remove dropping each of the entry's keys that the map holds.
RECURSIVE RemoveKeysWhole(_, _)
RemoveKeysWhole(d, keys) ==
    IF keys = <<>> THEN d
    ELSE LET k == Head(keys)
         IN  RemoveKeysWhole([x \in DOMAIN d \ {k} |-> d[x]], Tail(keys))

IndexRemoveWhole(d, entry) == RemoveKeysWhole(d, entry.keys)


IndexRemove(d, entry) == RemoveKeys(d, entry.keys, entry.value)

\* Index::query, the HashSet r: the values of every key that contains q.
QueryHits(d, q) == UNION {d[k] : k \in {x \in DOMAIN d : Contains(x, q)}}

\* Index::query with the matches pushed straight into the Vec, key by key.
IndexQueryNoSet(d, q) ==
    LET ks == SetToVec({x \in DOMAIN d : Contains(x, q)})
        F[i \in 0..Len(ks)] ==
            IF i = 0 THEN <<>> ELSE F[i - 1] \o SetToVec(d[ks[i]])
    IN  F[Len(ks)]

\* Index::query: r poured into the returned Vec.
IndexQuery(d, q) == SetToVec(QueryHits(d, q))

-----------------------------------------------------------------------------
(* The paths and queries of index.rs's test_index, and a few more.         *)

Pb1 == <<"/","f","o","o","/","b","a","r","/","b","a","z","_","1">>
Pb2 == <<"/","f","o","o","/","b","a","r","/","b","a","z","_","2">>
Pb3 == <<"/","a","/","b","/","c","/","d","/","e">>
Pb4 == <<"/","f","o","o","o","/","b","a","r","/","a","a","a","a","a">>
Pb5 == <<"/","1","/","2","/","3","/","4","/","5","/","a","a","a",".","b",".","f","o","o">>
\* the root alone, a repeated component, "." and ".." and an empty piece
PbRoot == <<"/">>
PbTwice == <<"/","a","/","a">>
PbDots == <<"/","f","o","o","/",".","/",".",".","/","/","b","a","z","_","1">>

TestPaths == {Pb1, Pb2, Pb3, Pb4, Pb5}
IndexPaths == TestPaths \cup {PbRoot, PbTwice, PbDots}

QFoo == <<"f","o","o">>
QBar == <<"b","a","r">>
QBa == <<"b","a">>
QABABA == <<"A","B","A","B","A">>
IndexQueries == {QFoo, QBar, QBa, QABABA, <<>>, <<"a">>, <<".">>}
NoQuery == <<"none">>

-----------------------------------------------------------------------------
(* The in-memory index driven by any sequence of insert, remove and query. *)

\* What the call on the Index was.
Called(op, arg) == [op |-> op, arg |-> arg, had |-> arg \in stored]
NoCall == [op |-> "none", arg |-> <<>>, had |-> FALSE]

InitIndex ==
    /\ data = IndexNew
    /\ stored = {}
    /\ ret = <<>>
    /\ retq = NoQuery
    /\ iact = NoCall

DoInsert(p) ==
    /\ data' = IndexInsert(data, IndexItemFrom(p))
    /\ stored' = stored \cup {p}
    /\ ret' = <<>>
    /\ retq' = NoQuery
    /\ iact' = Called("insert", p)
    /\ UNCHANGED pvars

DoRemove(p) ==
    /\ data' = IndexRemove(data, IndexItemFrom(p))
    /\ stored' = stored \ {p}
    /\ ret' = <<>>
    /\ retq' = NoQuery
    /\ iact' = Called("remove", p)
    /\ UNCHANGED pvars

DoQuery(q) ==
    /\ ret' = IndexQuery(data, q)
    /\ retq' = q
    /\ iact' = Called("query", q)
    /\ UNCHANGED <<data, stored, pvars>>

NextIndex ==
    \/ \E p \in IndexPaths : DoInsert(p)
    \/ \E p \in IndexPaths : DoRemove(p)
    \/ \E q \in IndexQueries : DoQuery(q)


-----------------------------------------------------------------------------
(* Program constants                                                       *)

\* indexer.rs: `if counter % 1000 == 0`
CommitEvery == 1000
\* rpc.rs: TopDocs::with_limit(1000)
QueryLimit == 1000
\* indexer.rs: `let mut counter: u32 = 1`
CounterStart == 1

(* Bounds of the model                                                     *)

\* events the watch loop may have sent that the indexer has not received yet
MaxChan == 2
\* bursts of notifications the environment delivers in a run
MaxBursts == 2
\* failures (engine, watch registration, notify) the environment causes in a run
MaxFaults == 1

-----------------------------------------------------------------------------
(* The filesystem the daemon is configured on                              *)

RootR == <<"/","r">>
RootS == <<"/","s">>
RootM == <<"/","m">>
RootF == <<"/","f">>
RootBig == <<"/","g">>
RootD == <<"/","d">>
PA == <<"/","r","/","a">>
PB == <<"/","r","/","b">>
PSA == <<"/","s","/","a">>
\* the directory /d/x, the file /d/x/y in it, and the name /d/z
PDX == <<"/","d","/","x">>
PDXY == <<"/","d","/","x","/","y">>
PDZ == <<"/","d","/","z">>

\* Path::exists and Path::is_dir at startup: /m is missing, /f is a file.
Exists(p) == p \in {RootR, RootS, RootF, RootBig, RootD}
IsDir(p) == p \in {RootR, RootS, RootBig, RootD}

Digits == <<"0","1","2","3","4","5","6","7","8","9">>
\* the name of the i-th file of /g: three digits
BigName(i) ==
    <<Digits[((i \div 100) % 10) + 1], Digits[((i \div 10) % 10) + 1],
      Digits[(i % 10) + 1]>>

Entry(p) == [ok |-> TRUE, path |-> p]
EntryErr == [ok |-> FALSE, path |-> <<>>]

\* walkdir::WalkDir::new(root): the entries the iterator yields, the root
\* first; /s holds an entry that cannot be read; /d holds a directory with a
\* file in it; /g holds QueryLimit files.
WalkDir(root) ==
    CASE root = RootR -> <<Entry(RootR), Entry(PA)>>
      [] root = RootS -> <<Entry(RootS), EntryErr, Entry(PSA)>>
      [] root = RootD -> <<Entry(RootD), Entry(PDX), Entry(PDXY)>>
      [] root = RootBig ->
            <<Entry(RootBig)>> \o
            [i \in 1..QueryLimit |-> Entry(RootBig \o <<"/">> \o BigName(i - 1))]
      [] OTHER -> <<>>

\* DebouncedEvent / WatchEvent
Create(p) == [kind |-> "Create", p |-> p, d |-> <<>>]
Remove(p) == [kind |-> "Remove", p |-> p, d |-> <<>>]
Rename(p, d) == [kind |-> "Rename", p |-> p, d |-> d]
Other(p) == [kind |-> "Other", p |-> p, d |-> <<>>]
NoEvent == [kind |-> "None", p |-> <<>>, d |-> <<>>]

\* the watched root an event's path lies under
EvRoot(e) == SubSeq(e.p, 1, 2)

-----------------------------------------------------------------------------
(* The search engine (tantivy) as the daemon uses it: documents are a bag  *)
(* of paths; the writer buffers operations; commit publishes them.         *)

LowerCase == <<"a","b","c","d","e","f","g","h","i","j","k","l","m",
               "n","o","p","q","r","s","t","u","v","w","x","y","z">>
UpperCase == <<"A","B","C","D","E","F","G","H","I","J","K","L","M",
               "N","O","P","Q","R","S","T","U","V","W","X","Y","Z">>

AlnumChars == Range(LowerCase) \cup Range(UpperCase) \cup Range(Digits)
IsAlnum(c) == c \in AlnumChars

ToLower(c) ==
    IF c \in Range(UpperCase)
    THEN LowerCase[CHOOSE i \in DOMAIN UpperCase : UpperCase[i] = c]
    ELSE c

\* The default tokenizer of a TEXT field: the maximal alphanumeric runs,
\* lowercased.
RECURSIVE Toks(_, _, _)
Toks(s, i, cur) ==
    LET done == IF cur = <<>> THEN {} ELSE {cur}
    IN  IF i > Len(s) THEN done
        ELSE IF IsAlnum(s[i]) THEN Toks(s, i + 1, Append(cur, ToLower(s[i])))
        ELSE done \cup Toks(s, i + 1, <<>>)

Tokens(s) == Toks(s, 1, <<>>)

\* from_pathbuf: the document of a path; file_id and path are both the path
\* string, so the bag holds the path.
FromPathbuf(p) == p

\* index_writer.add_document
AddDocument(b, doc) == b (+) SetToBag({doc})

\* delete_term on a term that no document holds.
DeleteTermMiss(b, p) == b

\* A delete that takes p and every document of a path located under p.
DeleteTermUnder(b, p) ==
    LET under(x) == /\ Len(x) > Len(p)
                    /\ SubSeq(x, 1, Len(p)) = p
                    /\ x[Len(p) + 1] = "/"
    IN  [x \in {y \in (DOMAIN b) \ {p} : ~under(y)} |-> b[x]]


\* index_writer.delete_term(Term(file_id, p)): every document added before
\* with that file_id goes.
DeleteTerm(b, p) == [x \in (DOMAIN b) \ {p} |-> b[x]]

\* One buffered operation applied to a bag of documents.
ApplyOp(b, o) ==
    IF o.op = "add" THEN AddDocument(b, o.path) ELSE DeleteTerm(b, o.path)

\* The first n operations of ops applied in order to b.
RECURSIVE Replay(_, _, _)
Replay(b, ops, n) ==
    IF n = 0 THEN b ELSE ApplyOp(Replay(b, ops, n - 1), ops[n])

\* index_writer.add_document for each document of docs in turn.
AddDocuments(b, docs) ==
    IF Cardinality(Range(docs)) = Len(docs)
    THEN b (+) SetToBag(Range(docs))
    ELSE b (+) [d \in Range(docs) |->
                   Cardinality({i \in DOMAIN docs : docs[i] = d})]

\* A buffered operation; `by` records what it came from.
OpAdd(p, by) == [op |-> "add", path |-> p, by |-> by]
OpDel(p, by) == [op |-> "del", path |-> p, by |-> by]

\* query_parser.parse_query on the path field: a single word becomes a term
\* query on its lowercased token; anything else here fails to parse.
BadQuery == <<"(">>
ParseQuery(text) ==
    IF text # <<>> /\ \A i \in DOMAIN text : IsAlnum(text[i])
    THEN [ok |-> TRUE, term |-> [i \in DOMAIN text |-> ToLower(text[i])]]
    ELSE [ok |-> FALSE, term |-> <<>>]

\* The documents of a snapshot that a term query matches.
Matches(snap, term) ==
    [x \in {y \in DOMAIN snap : term \in Tokens(y)} |-> snap[x]]

\* A bag less k of its documents, the copies of one path at a time.
RECURSIVE Less(_, _)
Less(b, k) ==
    IF k = 0 THEN b
    ELSE LET x == CHOOSE y \in BagToSet(b) : TRUE
             c == IF b[x] < k THEN b[x] ELSE k
         IN  Less(b (-) [y \in {x} |-> c], k - c)

\* searcher.search(query, TopDocs::with_limit(limit)): all the matches when
\* they are at most limit, else limit of them; which ones is a fixed choice
\* of the engine (its scores and document addresses) that the model leaves
\* unspecified.
TopDocs(snap, term, limit) ==
    LET m == Matches(snap, term)
        n == BagCardinality(m)
    IN  IF n <= limit THEN m ELSE Less(m, n - limit)

-----------------------------------------------------------------------------
(* Environment                                                             *)

\* The outcomes of a call that may fail: failure only while faults are left,
\* and only of the calls the scenario lets fail.
Outcomes(call) ==
    IF left.faults > 0 /\ call \in scn.faulty THEN {TRUE, FALSE} ELSE {TRUE}
Spend(ok) == IF ok THEN left ELSE [left EXCEPT !.faults = @ - 1]

Running == mpc # "exited"

\* A history of events with one more, kept where the scenario asks for it.
Seen(h, e) == IF scn.hist THEN Append(h, e) ELSE h

\* The calls that may fail.
Calls == {"serve", "watcher", "watch", "recv", "writer", "commit", "reader",
          "search", "doc"}

\* The notifications of the runs of Spec: on /r/a and /r/b.
MainEvents ==
    {Create(PA), Create(PB), Remove(PA), Rename(PA, PB), Other(PA)}

\* A request: QueryReq.query, and <<QueryReq.count, QueryReq.offset>>.
Req(text, hints) == [text |-> text, hints |-> hints]
NoHints == <<0, 0>>
\* The requests of the runs of Spec: a word, and a query that does not parse.
MainReqs == {Req(<<"a">>, NoHints), Req(BadQuery, NoHints)}

Idle == [pc |-> "idle", text |-> <<>>, hints |-> NoHints, term |-> <<>>,
         snap |-> EmptyBag, epoch |-> 0, top |-> EmptyBag, dead |-> FALSE]
NoResp == [status |-> "none", results |-> EmptyBag, text |-> <<>>,
           hints |-> NoHints, term |-> <<>>, snap |-> EmptyBag, epoch |-> 0,
           lost |-> 0, dead |-> FALSE, now |-> 0]
NoAct == [op |-> "none", commit |-> "none", n |-> 0, idle |-> FALSE,
          flushed |-> FALSE]

\* The OS delivers a burst of k notifications e to notify's channel; the
\* events of a burst reach the watch loop less than the receive timeout apart.
OsNotify(e, k) ==
    /\ Running
    /\ wpc \in {"register", "loop"}
    /\ EvRoot(e) \in watched
    /\ nq.n = 0
    /\ left.bursts > 0
    /\ nq' = [ev |-> e, n |-> k]
    /\ left' = [left EXCEPT !.bursts = @ - 1]
    /\ UNCHANGED <<ivars, obs, mpc, paths, ipc, iret, wroot, counter, last_change, working,
                   committed, chan, wpc, wi, watched, qh, resp, scn,
                   applied, ncommit, fresh, lastrecv, act>>

-----------------------------------------------------------------------------
(* main.rs                                                                 *)

\* thread::spawn of the indexer thread
MainSpawnIndexer ==
    /\ mpc = "start"
    /\ mpc' = "serve"
    /\ ipc' = "new"
    /\ UNCHANGED <<ivars, obs, paths, iret, wroot, counter, last_change, working,
                   committed, chan, wpc, wi, watched, nq, qh, resp, scn, left,
                   applied, ncommit, fresh, lastrecv, act>>

\* Server::builder()...serve(addr).await?: the server serves, or fails to
\* start and main returns the error.
MainServe ==
    /\ mpc = "serve"
    /\ \E ok \in Outcomes("serve") :
          /\ mpc' = IF ok THEN "serving" ELSE "exited"
          /\ left' = Spend(ok)
    /\ UNCHANGED <<ivars, obs, paths, ipc, iret, wroot, counter, last_change, working,
                   committed, chan, wpc, wi, watched, nq, qh, resp, scn,
                   applied, ncommit, fresh, lastrecv, act>>

-----------------------------------------------------------------------------
(* indexer.rs: FsWatcher                                                   *)

\* FsWatcher::new looking at the first root only.
FsWatcherNewFirst(ps) ==
    IF ps = <<>> THEN "Ok"
    ELSE IF ~Exists(Head(ps)) THEN "PathDoesNotExist"
    ELSE IF ~IsDir(Head(ps)) THEN "PathIsNotADir"
    ELSE "Ok"

\* FsWatcher::new: the first root that is missing or no directory is the
\* error; no root is touched otherwise.
RECURSIVE FsWatcherNew(_)
FsWatcherNew(ps) ==
    IF ps = <<>> THEN "Ok"
    ELSE IF ~Exists(Head(ps)) THEN "PathDoesNotExist"
    ELSE IF ~IsDir(Head(ps)) THEN "PathIsNotADir"
    ELSE FsWatcherNew(Tail(ps))

\* a Sender of the WatchEvent channel that outlives the watcher thread
SenderKept == TRUE

\* the Sender of the WatchEvent channel lives in the watcher thread
SenderAlive == wpc \in {"init", "register", "loop"}

\* FsWatcher::watch: notify::watcher(tx, 1s)?
WatcherInit ==
    /\ Running
    /\ wpc = "init"
    /\ \E ok \in Outcomes("watcher") :
          /\ wpc' = IF ~ok THEN "exited"
                    ELSE IF Len(paths) >= 1 THEN "register" ELSE "loop"
          /\ left' = Spend(ok)
    /\ wi' = 1
    /\ UNCHANGED <<ivars, obs, mpc, paths, ipc, iret, wroot, counter, last_change, working,
                   committed, chan, watched, nq, qh, resp, scn,
                   applied, ncommit, fresh, lastrecv, act>>

\* FsWatcher::watch with a registration loop that returns on the first root
\* whose watch fails.
WatcherRegisterFatal ==
    /\ Running
    /\ wpc = "register"
    /\ \E ok \in Outcomes("watch") :
          /\ watched' = IF ok THEN watched \cup {paths[wi]} ELSE watched
          /\ obs' = IF ok THEN obs
                    ELSE [obs EXCEPT !.nowatch = @ \cup {paths[wi]}]
          /\ left' = Spend(ok)
          /\ IF ok /\ wi < Len(paths)
             THEN wi' = wi + 1 /\ wpc' = wpc
             ELSE wi' = wi /\ wpc' = IF ok THEN "loop" ELSE "exited"
    /\ UNCHANGED <<ivars, mpc, paths, ipc, iret, wroot, counter, last_change, working,
                   committed, chan, nq, qh, resp, scn,
                   applied, ncommit, fresh, lastrecv, act>>


\* FsWatcher::watch: watcher.watch(path, Recursive) for the next root; a
\* failure is logged and the next root follows.
WatcherRegister ==
    /\ Running
    /\ wpc = "register"
    /\ \E ok \in Outcomes("watch") :
          /\ watched' = IF ok THEN watched \cup {paths[wi]} ELSE watched
          /\ obs' = IF ok THEN obs
                    ELSE [obs EXCEPT !.nowatch = @ \cup {paths[wi]}]
          /\ left' = Spend(ok)
    /\ IF wi < Len(paths)
       THEN wi' = wi + 1 /\ wpc' = wpc
       ELSE wi' = wi /\ wpc' = "loop"
    /\ UNCHANGED <<ivars, mpc, paths, ipc, iret, wroot, counter, last_change, working,
                   committed, chan, nq, qh, resp, scn,
                   applied, ncommit, fresh, lastrecv, act>>

\* A watch loop without the Rename arm: a rename falls to the Ok(event) arm.
ForwardedNoRename(e) == e.kind \in {"Create", "Remove"}


Forwarded(e) == e.kind \in {"Create", "Remove", "Rename"}

\* FsWatcher::watch, one turn of the loop on Ok(event): Create, Remove and
\* Rename are sent on; a send to a dropped receiver ends the thread; any
\* other event is logged.
WatcherRecv ==
    /\ Running
    /\ wpc = "loop"
    /\ nq.n > 0
    /\ Len(chan) < MaxChan
    /\ LET e == nq.ev
           sendFails == Forwarded(e) /\ ipc = "done"
       IN  /\ wpc' = IF sendFails THEN "exited" ELSE wpc
           /\ chan' = IF Forwarded(e) /\ ~sendFails THEN Append(chan, e) ELSE chan
           /\ nq' = IF sendFails \/ nq.n = 1
                    THEN [ev |-> NoEvent, n |-> 0]
                    ELSE [nq EXCEPT !.n = @ - 1]
    /\ obs' = [obs EXCEPT !.got = Seen(@, nq.ev)]
    /\ UNCHANGED <<ivars, mpc, paths, ipc, iret, wroot, counter, last_change, working,
                   committed, wi, watched, qh, resp, scn, left,
                   applied, ncommit, fresh, lastrecv, act>>

\* FsWatcher::watch, one turn of the loop on Err: notify's channel is lost,
\* the thread returns the error and its Sender is dropped.
WatcherRecvErr ==
    /\ Running
    /\ wpc = "loop"
    /\ nq.n = 0
    /\ FALSE \in Outcomes("recv")
    /\ wpc' = "exited"
    /\ left' = Spend(FALSE)
    /\ UNCHANGED <<ivars, obs, mpc, paths, ipc, iret, wroot, counter, last_change, working,
                   committed, chan, wi, watched, nq, qh, resp, scn,
                   applied, ncommit, fresh, lastrecv, act>>

-----------------------------------------------------------------------------
(* indexer.rs: Indexer::index                                              *)

\* let w = FsWatcher::new(tx, self.paths)?
NewWatcher ==
    /\ Running
    /\ ipc = "new"
    /\ LET r == FsWatcherNew(paths)
       IN  IF r = "Ok"
           THEN ipc' = "spawn" /\ iret' = iret
           ELSE ipc' = "done" /\ iret' = r
    /\ UNCHANGED <<ivars, obs, mpc, paths, wroot, counter, last_change, working,
                   committed, chan, wpc, wi, watched, nq, qh, resp, scn, left,
                   applied, ncommit, fresh, lastrecv, act>>

\* thread::spawn(move || w.watch())
SpawnWatcher ==
    /\ Running
    /\ ipc = "spawn"
    /\ wpc' = "init"
    /\ ipc' = "writer"
    /\ UNCHANGED <<ivars, obs, mpc, paths, iret, wroot, counter, last_change, working,
                   committed, chan, wi, watched, nq, qh, resp, scn, left,
                   applied, ncommit, fresh, lastrecv, act>>

\* self.index.writer_with_num_threads(1, 50_000_000)?
MakeWriter ==
    /\ Running
    /\ ipc = "writer"
    /\ \E ok \in Outcomes("writer") :
          /\ ipc' = IF ~ok THEN "done"
                    ELSE IF Len(paths) >= 1 THEN "walk" ELSE "head"
          /\ iret' = IF ok THEN iret ELSE "Tantivy"
          /\ chan' = IF ok THEN chan ELSE <<>>
          /\ left' = Spend(ok)
    /\ wroot' = 1
    /\ UNCHANGED <<ivars, obs, mpc, paths, counter, last_change, working,
                   committed, wpc, wi, watched, nq, qh, resp, scn,
                   applied, ncommit, fresh, lastrecv, act>>

\* A walk that ends at the first entry it cannot read.
WalkOpsStopAtError(entries) ==
    LET bad  == {i \in DOMAIN entries : ~entries[i].ok}
        n    == IF bad = {} THEN Len(entries)
                ELSE (CHOOSE i \in bad : \A j \in bad : i <= j) - 1
        read == SubSeq(entries, 1, n)
    IN  [i \in DOMAIN read |-> OpAdd(FromPathbuf(read[i].path), "walk")]


\* The operations the walk of a root buffers: an add_document for every
\* entry read; an entry that cannot be read is logged.
WalkOps(entries) ==
    LET read == SelectSeq(entries, LAMBDA e : e.ok)
    IN  [i \in DOMAIN read |-> OpAdd(FromPathbuf(read[i].path), "walk")]

\* What the step of the indexer did.
Did(op, commit) ==
    [op |-> op, commit |-> commit, n |-> fresh,
     idle |-> lastrecv \in {"timeout", "flush"}, flushed |-> lastrecv = "flush"]
Outcome(ok) == IF ok THEN "ok" ELSE "err"

\* The history of buffered operations, kept where the scenario asks for it.
Record(ops) == IF scn.hist THEN applied \o ops ELSE applied

\* for entry in walker { ... } for the root paths[wroot]
WalkRoot ==
    /\ Running
    /\ ipc = "walk"
    /\ \E ops \in {WalkOps(WalkDir(paths[wroot]))} :
          /\ working' = AddDocuments(working, [i \in DOMAIN ops |-> ops[i].path])
          /\ applied' = Record(ops)
    /\ ipc' = "walk_commit"
    /\ act' = Did("walk", "none")
    /\ UNCHANGED <<ivars, obs, mpc, paths, iret, wroot, counter, last_change,
                   committed, chan, wpc, wi, watched, nq, qh, resp, scn, left,
                   ncommit, fresh, lastrecv>>

\* index_writer.commit()? after the walk of a root
WalkCommit ==
    /\ Running
    /\ ipc = "walk_commit"
    /\ \E ok \in Outcomes("commit") :
          /\ left' = Spend(ok)
          /\ committed' = IF ok THEN working ELSE committed
          /\ ncommit' = IF ok THEN Len(applied) ELSE ncommit
          /\ act' = Did("walk_commit", Outcome(ok))
          /\ ipc' = IF ~ok THEN "done"
                    ELSE IF wroot < Len(paths) THEN "walk" ELSE "head"
          /\ iret' = IF ok THEN iret ELSE "Tantivy"
          /\ chan' = IF ok THEN chan ELSE <<>>
          /\ wroot' = IF ok /\ wroot < Len(paths) THEN wroot + 1 ELSE wroot
    /\ fresh' = 0
    /\ UNCHANGED <<ivars, obs, mpc, paths, counter, last_change, working,
                   wpc, wi, watched, nq, qh, resp, scn, applied, lastrecv>>

\* if counter % 1000 == 0
ThresholdDue == counter % CommitEvery = 0

\* The head of the loop: if counter % 1000 == 0 { commit, an error logged }
LoopHead ==
    /\ Running
    /\ ipc = "head"
    /\ IF ThresholdDue
       THEN \E ok \in Outcomes("commit") :
               /\ left' = Spend(ok)
               /\ committed' = IF ok THEN working ELSE committed
               /\ ncommit' = IF ok THEN Len(applied) ELSE ncommit
               /\ fresh' = 0
               /\ act' = Did("head", Outcome(ok))
       ELSE /\ act' = Did("head", "none")
            /\ UNCHANGED <<left, committed, ncommit, fresh>>
    /\ ipc' = "recv"
    /\ UNCHANGED <<ivars, obs, mpc, paths, iret, wroot, counter, last_change, working,
                   chan, wpc, wi, watched, nq, qh, resp, scn, applied, lastrecv>>

\* The operations an event buffers.
EventOps(e) ==
    CASE e.kind = "Create" -> <<OpAdd(FromPathbuf(e.p), "Create")>>
      [] e.kind = "Remove" -> <<OpDel(e.p, "Remove")>>
      [] e.kind = "Rename" -> <<OpDel(e.p, "Rename"),
                                OpAdd(FromPathbuf(e.d), "Rename")>>

\* A pipeline that also receives an event between the walks of two roots.
RecvEventBetweenWalks ==
    /\ Running
    /\ ipc \in {"recv", "walk"}
    /\ chan # <<>>
    /\ LET ops == EventOps(Head(chan))
       IN  /\ working' = Replay(working, ops, Len(ops))
           /\ applied' = Record(ops)
    /\ chan' = Tail(chan)
    /\ counter' = counter + 1
    /\ fresh' = fresh + 1
    /\ lastrecv' = "event"
    /\ act' = Did("event", "none")
    /\ ipc' = IF ipc = "walk" THEN "walk" ELSE "head"
    /\ obs' = [obs EXCEPT !.put = Seen(@, Head(chan))]
    /\ UNCHANGED <<ivars, mpc, paths, iret, wroot, last_change,
                   committed, wpc, wi, watched, nq, qh, resp, scn, left,
                   ncommit>>


\* rx.recv_timeout returns Ok(event)
RecvEvent ==
    /\ Running
    /\ ipc = "recv"
    /\ chan # <<>>
    /\ LET ops == EventOps(Head(chan))
       IN  /\ working' = Replay(working, ops, Len(ops))
           /\ applied' = Record(ops)
    /\ chan' = Tail(chan)
    /\ counter' = counter + 1
    /\ fresh' = fresh + 1
    /\ lastrecv' = "event"
    /\ act' = Did("event", "none")
    /\ ipc' = "head"
    /\ obs' = [obs EXCEPT !.put = Seen(@, Head(chan))]
    /\ UNCHANGED <<ivars, mpc, paths, iret, wroot, last_change,
                   committed, wpc, wi, watched, nq, qh, resp, scn, left,
                   ncommit>>

\* a burst whose events the watch loop is still sending
BurstInFlight == wpc = "loop" /\ nq.n > 0

\* if last_change != counter, taken only for the first mutation of the loop.
IdleFlushFirstOnly == last_change # counter /\ counter = CounterStart + 1

\* if last_change != counter, taken only where the threshold is due as well.
IdleFlushOnThreshold == last_change # counter /\ ThresholdDue


\* if last_change != counter
IdleFlushDue == last_change # counter

\* rx.recv_timeout returns Err(Timeout)
RecvTimeout ==
    /\ Running
    /\ ipc = "recv"
    /\ chan = <<>>
    /\ SenderAlive
    /\ ~BurstInFlight
    /\ IF IdleFlushDue
       THEN \E ok \in Outcomes("commit") :
               /\ left' = Spend(ok)
               /\ last_change' = counter
               /\ committed' = IF ok THEN working ELSE committed
               /\ ncommit' = IF ok THEN Len(applied) ELSE ncommit
               /\ fresh' = 0
               /\ act' = Did("timeout", Outcome(ok))
       ELSE /\ act' = Did("timeout", "none")
            /\ UNCHANGED <<left, last_change, committed, ncommit, fresh>>
    /\ lastrecv' = IF fresh > 0 \/ lastrecv = "flush" THEN "flush" ELSE "timeout"
    /\ ipc' = "head"
    /\ UNCHANGED <<ivars, obs, mpc, paths, iret, wroot, counter, working,
                   chan, wpc, wi, watched, nq, qh, resp, scn, applied>>

\* rx.recv_timeout returns Err(Disconnected): the channel is empty and its
\* Sender is gone
RecvDisconnected ==
    /\ Running
    /\ ipc = "recv"
    /\ chan = <<>>
    /\ ~SenderAlive
    /\ ipc' = "done"
    /\ iret' = "WatcherRxError"
    /\ lastrecv' = "disconnected"
    /\ act' = Did("disconnected", "none")
    /\ UNCHANGED <<ivars, obs, mpc, paths, wroot, counter, last_change, working,
                   committed, chan, wpc, wi, watched, nq, qh, resp, scn, left,
                   applied, ncommit, fresh>>

-----------------------------------------------------------------------------
(* rpc.rs: LookrService::query                                             *)

\* A searcher that reads the writer's buffer.
SearcherUncommitted == working

\* self.index.reader()'s searcher: the documents of the last commit
Searcher == committed

\* The reply; `snap` and `epoch` record the snapshot the handler read, `lost`
\* how many loads of a matched document failed, `dead` whether the indexer
\* thread had ended when the request came, `now` the operations committed
\* when the reply was made.
Reply(req, status, results, lost) ==
    [status |-> status, results |-> results, text |-> req.text,
     hints |-> req.hints, term |-> req.term, snap |-> req.snap,
     epoch |-> req.epoch, lost |-> lost, dead |-> req.dead, now |-> ncommit]

\* self.index.reader() and its searcher, then parse_query
QueryBegin(text, hints) ==
    /\ mpc = "serving"
    /\ qh.pc = "idle"
    /\ \E ok \in Outcomes("reader") :
          LET pq == ParseQuery(text)
              req == [pc |-> "search", text |-> text, hints |-> hints,
                      term |-> pq.term, snap |-> Searcher, epoch |-> ncommit,
                      top |-> EmptyBag, dead |-> ipc = "done"]
          IN  /\ left' = Spend(ok)
              /\ IF ~ok
                 THEN qh' = Idle /\ resp' = Reply(req, "reader", EmptyBag, 0)
                 ELSE IF ~pq.ok
                 THEN qh' = Idle /\ resp' = Reply(req, "parse", EmptyBag, 0)
                 ELSE qh' = req /\ resp' = NoResp
    /\ UNCHANGED <<ivars, obs, mpc, paths, ipc, iret, wroot, counter, last_change, working,
                   committed, chan, wpc, wi, watched, nq, scn,
                   applied, ncommit, fresh, lastrecv, act>>

\* searcher.search(&query, &TopDocs::with_limit(1000))
QuerySearch ==
    /\ mpc = "serving"
    /\ qh.pc = "search"
    /\ \E ok \in Outcomes("search") :
          /\ left' = Spend(ok)
          /\ IF ~ok
             THEN qh' = Idle /\ resp' = Reply(qh, "search", EmptyBag, 0)
             ELSE /\ qh' = [qh EXCEPT !.pc = "load",
                                      !.top = TopDocs(qh.snap, qh.term, QueryLimit)]
                  /\ resp' = resp
    /\ UNCHANGED <<ivars, obs, mpc, paths, ipc, iret, wroot, counter, last_change, working,
                   committed, chan, wpc, wi, watched, nq, scn,
                   applied, ncommit, fresh, lastrecv, act>>

\* The documents loaded from top by a searcher acquired anew for the loads:
\* those of top that the last commit still holds.
LoadedFromLatest(top, ok) ==
    LET keep == {p \in BagToSet(top) : BagIn(p, committed)}
        now  == [p \in keep |-> top[p]]
    IN  IF ok THEN {now} ELSE {now (-) SetToBag({x}) : x \in BagToSet(top)}


\* The documents loaded from top: all of them, or all but one whose load
\* fails and is logged.
Loaded(top, ok) ==
    IF ok THEN {top} ELSE {top (-) SetToBag({x}) : x \in BagToSet(top)}

\* for (_, doc_addr) in top_docs { searcher.doc(doc_addr) ... } and the reply
QueryLoad ==
    /\ mpc = "serving"
    /\ qh.pc = "load"
    /\ \E ok \in Outcomes("doc") :
          /\ left' = Spend(ok)
          /\ \E r \in Loaded(qh.top, ok) :
                resp' = Reply(qh, "ok", r, IF ok THEN 0 ELSE 1)
    /\ qh' = Idle
    /\ UNCHANGED <<ivars, obs, mpc, paths, ipc, iret, wroot, counter, last_change, working,
                   committed, chan, wpc, wi, watched, nq, scn,
                   applied, ncommit, fresh, lastrecv, act>>

-----------------------------------------------------------------------------
(* The daemon                                                              *)

InitDaemon(config, scenario, budget) ==
    /\ mpc = "start"
    /\ paths = config
    /\ ipc = "unspawned"
    /\ iret = "running"
    /\ wroot = 1
    /\ counter = CounterStart
    /\ last_change = CounterStart
    /\ working = EmptyBag
    /\ committed = EmptyBag
    /\ chan = <<>>
    /\ wpc = "unspawned"
    /\ wi = 1
    /\ watched = {}
    /\ nq = [ev |-> NoEvent, n |-> 0]
    /\ qh = Idle
    /\ resp = NoResp
    /\ scn = scenario
    /\ left = budget
    /\ applied = <<>>
    /\ ncommit = 0
    /\ fresh = 0
    /\ lastrecv = "none"
    /\ act = NoAct
    /\ obs = [nowatch |-> {}, got |-> <<>>, put |-> <<>>]

\* The configurations of Spec: two good roots, or a good root followed by a
\* missing one or by a file.
Configs == {<<RootR, RootS>>, <<RootR, RootM>>, <<RootR, RootF>>}

Init ==
    /\ InitIndex
    /\ \E c \in Configs :
          InitDaemon(c, [sizes |-> {1}, evs |-> MainEvents, reqs |-> MainReqs,
                         faulty |-> Calls, hist |-> TRUE],
                     [bursts |-> MaxBursts, faults |-> MaxFaults])

Next ==
    \/ MainSpawnIndexer
    \/ MainServe
    \/ NewWatcher
    \/ SpawnWatcher
    \/ MakeWriter
    \/ WalkRoot
    \/ WalkCommit
    \/ LoopHead
    \/ RecvEvent
    \/ RecvTimeout
    \/ RecvDisconnected
    \/ WatcherInit
    \/ WatcherRegister
    \/ WatcherRecv
    \/ WatcherRecvErr
    \/ \E e \in scn.evs, k \in scn.sizes : OsNotify(e, k)
    \/ \E r \in scn.reqs : QueryBegin(r.text, r.hints)
    \/ QuerySearch
    \/ QueryLoad

Spec == Init /\ [][Next]_vars

\* Bursts of notifications long enough for the counter to pass CommitEvery:
\* one root, creations of /r/a one at a time or CommitEvery - 2 at a time.
InitBulk ==
    /\ InitIndex
    /\ InitDaemon(<<RootR>>,
                  [sizes |-> {1, CommitEvery - 2}, evs |-> {Create(PA)},
                   reqs |-> {Req(<<"a">>, NoHints)},
                   faulty |-> {"recv"}, hist |-> FALSE],
                  [bursts |-> MaxBursts, faults |-> MaxFaults])

SpecBulk == InitBulk /\ [][Next]_vars

\* A root with more entries than a search returns: /g and its QueryLimit
\* files; a file of it is removed or touched; requests with two values of
\* <<count, offset>>.
BigEvents == {Remove(RootBig \o <<"/">> \o BigName(0)), Other(RootBig)}
BigReqs == {Req(<<"g">>, NoHints), Req(<<"g">>, <<1, 1>>)}

InitBig ==
    /\ InitIndex
    /\ InitDaemon(<<RootBig>>,
                  [sizes |-> {1}, evs |-> BigEvents, reqs |-> BigReqs,
                   faulty |-> {"recv"}, hist |-> FALSE],
                  [bursts |-> MaxBursts - 1, faults |-> MaxFaults])

SpecBig == InitBig /\ [][Next]_vars

\* The in-memory index alone; the daemon does not run.
InitAlone ==
    /\ InitIndex
    /\ InitDaemon(<<RootR>>, [sizes |-> {1}, evs |-> MainEvents,
                              reqs |-> MainReqs, faulty |-> Calls,
                              hist |-> TRUE],
                  [bursts |-> 0, faults |-> 0])

SpecIndex == InitAlone /\ [][NextIndex]_vars

\* The in-memory index and the daemon side by side: a few paths for the
\* index, and for the daemon one root with Remove events on /r/b, which the
\* walk does not find.
FewPaths == {Pb1, Pb2}
FewQueries == {QFoo}

InitAbsent ==
    /\ InitIndex
    /\ InitDaemon(<<RootR>>,
                  [sizes |-> {1}, evs |-> {Remove(PB)},
                   reqs |-> {Req(<<"a">>, NoHints)},
                   faulty |-> {"recv"}, hist |-> TRUE],
                  [bursts |-> MaxBursts, faults |-> MaxFaults])

NextAbsent ==
    \/ Next
    \/ \E p \in FewPaths : DoInsert(p)
    \/ \E p \in FewPaths : DoRemove(p)
    \/ \E q \in FewQueries : DoQuery(q)

SpecAbsent == InitAbsent /\ [][NextAbsent]_vars


\* The in-memory index and the daemon side by side: for the daemon the root
\* /d, whose directory /d/x holds /d/x/y, and a Remove and a Rename of /d/x.
InitFrame ==
    /\ InitIndex
    /\ InitDaemon(<<RootD>>,
                  [sizes |-> {1}, evs |-> {Remove(PDX), Rename(PDX, PDZ)},
                   reqs |-> {Req(<<"y">>, NoHints)},
                   faulty |-> {"recv"}, hist |-> TRUE],
                  [bursts |-> MaxBursts - 1, faults |-> MaxFaults])

SpecFrame == InitFrame /\ [][NextAbsent]_vars


\* The steps of the indexer thread.
IndexerThread ==
    \/ NewWatcher
    \/ SpawnWatcher
    \/ MakeWriter
    \/ WalkRoot
    \/ WalkCommit
    \/ LoopHead
    \/ RecvEvent
    \/ RecvTimeout
    \/ RecvDisconnected

\* One root; the watcher may fail to start or lose notify's channel, and a
\* commit may fail.
InitLive ==
    /\ InitIndex
    /\ InitDaemon(<<RootR>>,
                  [sizes |-> {1}, evs |-> {Create(PA), Other(PA)},
                   reqs |-> {Req(<<"a">>, NoHints)},
                   faulty |-> {"watcher", "recv", "commit"}, hist |-> TRUE],
                  [bursts |-> MaxBursts, faults |-> MaxFaults])

\* The indexer thread is an OS thread of a running process: while it can
\* take a step it takes one.
SpecLive == InitLive /\ [][Next]_vars /\ WF_vars(IndexerThread)

\* The steps of the watcher thread that do not wait for the OS.
WatcherThread ==
    \/ WatcherInit
    \/ WatcherRegister
    \/ WatcherRecv

\* One root and bursts of Create events long enough to pass the threshold
\* with an event to spare; a commit may fail and notify's channel may be lost.
InitFlow ==
    /\ InitIndex
    /\ InitDaemon(<<RootR>>,
                  [sizes |-> {CommitEvery}, evs |-> {Create(PA)},
                   reqs |-> {Req(<<"a">>, NoHints)},
                   faulty |-> {"recv", "commit"}, hist |-> FALSE],
                  [bursts |-> MaxBursts - 1, faults |-> MaxFaults])

\* Both threads are OS threads of a running process: a step that stays
\* possible is taken.
SpecFlow ==
    InitFlow /\ [][Next]_vars /\ WF_vars(IndexerThread) /\ WF_vars(WatcherThread)


-----------------------------------------------------------------------------
(* Properties                                                              *)

\* The documents after the first n buffered operations.
DocsAt(n) == Replay(EmptyBag, applied, n)

\* C1: a query reads exactly the documents that the operations up to the
\* last successful commit produce: the committed documents are the replay of
\* the operations that commit covered and of no later one; a handler holds
\* the snapshot of the commit that was the last when it began; and a reply
\* holds matches of that snapshot only, all of them when no load failed and
\* they fit the search limit.
C1_QueryReadsLastCommit ==
    /\ ncommit <= Len(applied)
    /\ committed = DocsAt(ncommit)
    /\ qh.pc # "idle" =>
          /\ qh.epoch <= ncommit
          /\ qh.snap = DocsAt(qh.epoch)
    /\ resp.status = "ok" =>
          LET m == Matches(DocsAt(resp.epoch), resp.term)
          IN  /\ resp.epoch <= ncommit
              /\ resp.results \sqsubseteq m
              /\ (resp.lost = 0 /\ BagCardinality(m) <= QueryLimit)
                    => resp.results = m

\* C1's case: a reply from the last commit while a Create of /r/a received
\* since is buffered and not in it.
C1_Witness ==
    /\ resp.status = "ok"
    /\ resp.epoch = ncommit
    /\ Len(applied) > ncommit
    /\ applied[Len(applied)] = OpAdd(PA, "Create")
    /\ CopiesIn(PA, working) = 2
    /\ CopiesIn(PA, resp.results) = 1

\* C2: the two operations of a Rename(src, dst) are never published apart,
\* and the commit that publishes them leaves no document of src and exactly
\* one of dst.
C2_RenameAtomic ==
    \A i \in 2..Len(applied) :
        (applied[i].by = "Rename" /\ applied[i].op = "add") =>
            /\ ncommit # i - 1
            /\ ncommit = i =>
                  /\ CopiesIn(applied[i - 1].path, committed) = 0
                  /\ CopiesIn(applied[i].path, committed) = 1

\* C3: every committed identity has exactly one document, and a reply holds
\* a path once.
C3_OneDocumentPerIdentity ==
    /\ \A p \in DOMAIN committed : committed[p] = 1
    /\ resp.status = "ok" => \A p \in DOMAIN resp.results : resp.results[p] = 1

\* Whether operation i is a delete with no insert of its path after it among
\* the first n operations.
DeletedLast(i, n) ==
    /\ applied[i].op = "del"
    /\ \A j \in (i + 1)..n :
          ~(applied[j].op = "add" /\ applied[j].path = applied[i].path)

\* C4: a path whose last committed operation is a delete has no committed
\* document, and no reply from that commit or a later one holds it.
C4_DeleteThenCommit ==
    /\ \A i \in 1..ncommit :
          DeletedLast(i, ncommit) => ~BagIn(applied[i].path, committed)
    /\ resp.status = "ok" =>
          \A i \in 1..resp.epoch :
              DeletedLast(i, resp.epoch) => ~BagIn(applied[i].path, resp.results)

\* C4's case: Create(/r/a), later Remove(/r/a), committed, and a reply from
\* that commit to the query "a".
C4_Witness ==
    /\ resp.status = "ok"
    /\ resp.epoch = ncommit
    /\ resp.term = <<"a">>
    /\ \E i \in 1..ncommit, j \in 1..ncommit :
          /\ i < j
          /\ applied[i] = OpAdd(PA, "Create")
          /\ applied[j] = OpDel(PA, "Remove")
          /\ DeletedLast(j, ncommit)

MissingRoot(ps) == \E i \in DOMAIN ps : ~Exists(ps[i])
NotADirRoot(ps) == \E i \in DOMAIN ps : Exists(ps[i]) /\ ~IsDir(ps[i])

\* C8: with a root that is missing or no directory, Indexer::index returns
\* PathDoesNotExist or PathIsNotADir and nothing else happens: no watcher
\* thread, no OS watch, no walk, no buffered operation, no commit.
C8_InvalidRootAbortsFirst ==
    (MissingRoot(paths) \/ NotADirRoot(paths)) =>
        /\ ipc \in {"unspawned", "new", "done"}
        /\ ipc = "done" => iret \in {"PathDoesNotExist", "PathIsNotADir"}
        /\ wpc = "unspawned"
        /\ watched = {}
        /\ applied = <<>>
        /\ working = EmptyBag
        /\ committed = EmptyBag
        /\ act = NoAct

\* C8's case: the good root /r listed before a file; index has returned.
C8_Witness ==
    /\ paths = <<RootR, RootF>>
    /\ ipc = "done"
    /\ iret = "PathIsNotADir"
    /\ mpc = "serving"

\* C9: once the indexer thread has ended, the service takes no request.
C9_DaemonStopsWithPipeline ==
    /\ ~(qh.pc # "idle" /\ qh.dead)
    /\ ~(resp.status # "none" /\ resp.dead)

\* The stored paths with a normal component that contains q.
Expected(q) ==
    {p \in stored : \E i \in DOMAIN NormalComponents(p) :
                        Contains(NormalComponents(p)[i], q)}

\* C7: Index::query(q) returns, each once, exactly the stored paths with a
\* normal component that contains q; on the five paths of test_index "foo"
\* finds 4, "bar" 3, "ba" 3 and "ABABA" none, and "foo" finds 3 once
\* /foo/bar/baz_1 is removed.
C7_QueryIsSubstringMatch ==
    /\ retq # NoQuery =>
          /\ Range(ret) = Expected(retq)
          /\ Len(ret) = Cardinality(Expected(retq))
    /\ stored = TestPaths =>
          /\ Len(IndexQuery(data, QFoo)) = 4
          /\ Len(IndexQuery(data, QBar)) = 3
          /\ Len(IndexQuery(data, QBa)) = 3
          /\ Len(IndexQuery(data, QABABA)) = 0
    /\ stored = TestPaths \ {Pb1} => Len(IndexQuery(data, QFoo)) = 3

\* C7's case: the five paths inserted, /foo/bar/baz_1 removed, "foo" queried.
C7_Witness ==
    /\ stored = TestPaths \ {Pb1}
    /\ retq = QFoo
    /\ Len(ret) = 3

\* C5: a commit at the head of the loop is made with exactly CommitEvery
\* mutations buffered since the last commit(), and the loop never comes to
\* receive with CommitEvery of them buffered.
C5_ThresholdAtLimit ==
    /\ (act.op = "head" /\ act.commit # "none") => act.n = CommitEvery
    /\ ipc = "recv" => fresh < CommitEvery

\* C6: a receive timeout with mutations buffered since the last commit()
\* commits, and after it neither a further timeout nor the head of the loop
\* commits until an event is received; whatever the counter.
C6_IdleFlush ==
    /\ (act.op = "timeout" /\ act.n > 0) => act.commit # "none"
    /\ (act.op \in {"timeout", "head"} /\ act.flushed) => act.commit = "none"

\* C6's case: past CommitEvery events, a timeout flushed a batch and the next
\* timeout committed nothing.
C6_Witness ==
    /\ act.op = "timeout"
    /\ act.flushed
    /\ act.commit = "none"
    /\ counter > CommitEvery

\* C10: a reply that lost no document to a failed load holds every document
\* of its snapshot that matches the query.
C10_FullMatchSet ==
    (resp.status = "ok" /\ resp.lost = 0) =>
        resp.results = Matches(resp.snap, resp.term)

\* The Create, Remove and Rename notifications of a history, in order.
Sent(h) == SelectSeq(h, LAMBDA e : e.kind \in {"Create", "Remove", "Rename"})

\* C11: once the watcher thread has ended, the indexer thread ends (or the
\* process does); the loop is left only by WatcherRxError, with the channel
\* empty and every event the watcher sent received; after that nothing is
\* buffered or committed.
C11_DisconnectEndsPipeline ==
    /\ [][(ipc \in {"head", "recv"} /\ ipc' = "done") =>
             /\ iret' = "WatcherRxError"
             /\ wpc = "exited"
             /\ chan = <<>>
             /\ obs.put = Sent(obs.got)]_vars
    /\ [][ipc = "done" => UNCHANGED <<working, committed, applied, ncommit>>]_vars
    /\ (wpc = "exited") ~> (~Running \/ ipc = "done")

\* C11's case: the loop was left by WatcherRxError after events were received.
C11_Witness ==
    /\ ipc = "done"
    /\ iret = "WatcherRxError"
    /\ wpc = "exited"
    /\ obs.put # <<>>
    /\ act.op = "disconnected"

\* C12: a commit that fails, after a walk, at the threshold or in an idle
\* flush, ends the pipeline with the engine error.
C12_CommitFailureFatal ==
    act.commit = "err" => (ipc = "done" /\ iret = "Tantivy")

\* The entries of a root that its walk can read.
Readable(root) ==
    {WalkDir(root)[i].path : i \in {j \in DOMAIN WalkDir(root) : WalkDir(root)[j].ok}}

\* C13: a root whose watch registration fails does not end the watcher: the
\* registration goes on with the next root, the watch loop is entered with
\* every other root watched, and the entries of the failing root are walked
\* and committed as those of any root.
C13_WatchFailureNotFatal ==
    /\ [][(wpc = "register" /\ obs'.nowatch # obs.nowatch) =>
             /\ wpc' = (IF wi < Len(paths) THEN "register" ELSE "loop")
             /\ watched' = watched]_vars
    /\ [](wpc = "loop" =>
             /\ watched \cup obs.nowatch = Range(paths)
             /\ watched \cap obs.nowatch = {})
    /\ [](ipc \in {"head", "recv"} =>
             \A r \in obs.nowatch : \A p \in Readable(r) : BagIn(p, committed))

\* C13's case: the watch of /s failed, /s/a was walked and committed, and a
\* Create under the watched /r was forwarded and received.
C13_Witness ==
    /\ obs.nowatch = {RootS}
    /\ watched = {RootR}
    /\ wpc = "loop"
    /\ BagIn(PSA, committed)
    /\ obs.put # <<>>
    /\ obs.put[1] = Create(PA)

\* C14: Index::remove of a path that is not stored leaves the map as it was,
\* and no key of the map ever holds an empty set; a Remove(p) received for a
\* p without a document leaves the writer's documents and the committed ones
\* as they were, and the loop goes on.
C14_DeleteAbsentIsNoOp ==
    /\ [][\A p \in FewPaths : (DoRemove(p) /\ p \notin stored) => data' = data]_vars
    /\ [](\A k \in DOMAIN data : data[k] # {})
    /\ [][(/\ ipc = "recv" /\ ipc' # "recv" /\ chan # <<>>
           /\ Head(chan).kind = "Remove"
           /\ ~BagIn(Head(chan).p, working)) =>
             /\ working' = working
             /\ committed' = committed
             /\ ipc' = "head"
             /\ iret' = "running"]_vars

\* C14's case: /foo/bar/baz_2 removed from an index that holds only
\* /foo/bar/baz_1, which shares its keys; and Remove(/r/b) received when only
\* /r and /r/a are indexed.
C14_Witness ==
    /\ iact = [op |-> "remove", arg |-> Pb2, had |-> FALSE]
    /\ stored = {Pb1}
    /\ act.op = "event"
    /\ obs.put = <<Remove(PB)>>
    /\ ~BagIn(PB, working)
    /\ BagIn(PA, committed)

\* C15: a handler reads one snapshot, the documents of the commit in force
\* when it began: the search is made on it and the reply holds documents of
\* it only, all the matches when no load failed, whatever was committed in
\* between; a handler's step never waits for the indexer thread, and a step
\* of the indexer thread never waits for a handler.
C15_OneSnapshotPerQuery ==
    /\ qh.pc # "idle" => qh.snap = DocsAt(qh.epoch)
    /\ qh.pc = "load" => qh.top = TopDocs(qh.snap, qh.term, QueryLimit)
    /\ resp.status = "ok" =>
          /\ resp.snap = DocsAt(resp.epoch)
          /\ resp.epoch <= resp.now
          /\ resp.results \sqsubseteq Matches(resp.snap, resp.term)
          /\ resp.lost = 0 => resp.results = TopDocs(resp.snap, resp.term, QueryLimit)
    /\ qh.pc = "search" => ENABLED QuerySearch
    /\ qh.pc = "load" => ENABLED QueryLoad
    /\ (Running /\ qh.pc # "idle") =>
          /\ ipc = "walk" => ENABLED WalkRoot
          /\ ipc = "walk_commit" => ENABLED WalkCommit
          /\ ipc = "head" => ENABLED LoopHead
          /\ (ipc = "recv" /\ chan # <<>>) => ENABLED RecvEvent

\* C15's case: a commit that removed /r/a completed between the start of a
\* query for "a" and its reply, and the reply holds /r/a.
C15_Witness ==
    /\ resp.status = "ok"
    /\ resp.lost = 0
    /\ resp.epoch < resp.now
    /\ BagIn(PA, resp.results)
    /\ ~BagIn(PA, DocsAt(resp.now))

\* C16: a request that met a failure of the reader, the parser, the search or
\* the load of a matched document is answered by an internal error and no
\* result list.
C16_EngineFailureIsInternalError ==
    /\ resp.status \in {"reader", "parse", "search"} => resp.results = EmptyBag
    /\ resp.lost > 0 => resp.status \notin {"ok", "none"}

\* C17: while the counter stands where the threshold commit was made, that is
\* while no event has been received since, every commit made at the head of
\* the loop or on a receive timeout has a mutation to publish.
C17_NoCommitAfterThreshold ==
    (ThresholdDue /\ act.op \in {"head", "timeout"} /\ act.commit # "none")
        => act.n > 0

\* Whether the walk of root i has been made.
Walked(i) ==
    \/ ipc = "walk" /\ i < wroot
    \/ ipc \in {"walk_commit", "head", "recv"} /\ i <= wroot

\* C18: a root is walked only after the watcher thread has registered its OS
\* watch (or has tried to and logged the failure).
C18_WatchBeforeWalk ==
    \A i \in DOMAIN paths : Walked(i) => paths[i] \in watched \cup obs.nowatch

\* The operations that a sequence of received events buffers.
RECURSIVE EventOpsAll(_)
EventOpsAll(h) == IF h = <<>> THEN <<>> ELSE EventOps(Head(h)) \o EventOpsAll(Tail(h))

\* C19: while Indexer::index has not returned, the events it has received
\* followed by those still in the channel are the Create, Remove and Rename
\* notifications the watch loop has received, in order and once each, and the
\* operations buffered after the walks are those of the received events; a
\* notification of another kind changes neither the channel nor the position
\* of the watch loop.
C19_EventsInOrderOnce ==
    /\ [](ipc # "done" => obs.put \o chan = Sent(obs.got))
    /\ [](SelectSeq(applied, LAMBDA o : o.by # "walk") = EventOpsAll(obs.put))
    /\ [][(wpc = "loop" /\ obs'.got # obs.got /\ ~Forwarded(nq.ev)) =>
             /\ wpc' = "loop"
             /\ chan' = chan]_vars

\* C19's case: a notification of another kind, then a rename, reached the
\* watch loop; the rename was received by the indexer and its two operations
\* buffered, and the watch loop is still running.
C19_Witness ==
    /\ obs.got = <<Other(PA), Rename(PA, PB)>>
    /\ obs.put = <<Rename(PA, PB)>>
    /\ wpc = "loop"
    /\ ipc = "head"
    /\ Len(applied) >= 2
    /\ applied[Len(applied)] = OpAdd(PB, "Rename")

\* Whether the walk of root i has been made and committed, no event having
\* been received since.
WalkCommitted(i) ==
    \/ ipc \in {"walk", "walk_commit"} /\ i < wroot
    \/ ipc \in {"head", "recv"} /\ act.op = "walk_commit" /\ i <= wroot

\* C20: when the walk of a root begins, everything buffered so far is
\* committed: the documents of the last commit are the readable entries of
\* the roots walked before, those after an unreadable entry included; and
\* after the commit of the last root's walk they are the readable entries of
\* every root.
C20_CommitAfterEachRoot ==
    /\ ipc = "walk" =>
          /\ committed = working
          /\ ncommit = Len(applied)
    /\ \A i \in DOMAIN paths :
          WalkCommitted(i) => \A p \in Readable(paths[i]) : CopiesIn(p, committed) = 1
    /\ (ipc = "head" /\ act.op = "walk_commit") =>
          /\ act.commit = "ok"
          /\ wroot = Len(paths)
          /\ BagToSet(committed) = UNION {Readable(paths[i]) : i \in DOMAIN paths}

\* C20's case: /r then /s walked, each followed by its commit; /s/a, which
\* the walk of /s yields after an entry it cannot read, is committed.
C20_Witness ==
    /\ paths = <<RootR, RootS>>
    /\ ipc = "head"
    /\ act.op = "walk_commit"
    /\ act.commit = "ok"
    /\ ncommit = 4
    /\ BagIn(PA, committed)
    /\ BagIn(PSA, committed)

\* C21: while events received since the last commit are buffered, a commit
\* that publishes them follows, unless a commit fails, Indexer::index returns
\* (the channel was disconnected) or the process exits; the commit that
\* empties the buffer publishes the writer's documents.
C21_EventsEventuallyPublished ==
    /\ (fresh > 0) ~> \/ (fresh = 0 /\ act.commit = "ok")
                      \/ act.commit = "err"
                      \/ ipc = "done"
                      \/ ~Running
    /\ [][(fresh > 0 /\ fresh' = 0 /\ act'.commit = "ok") => committed' = working]_vars

\* C21's case: a burst carried the counter to the threshold, where the head
\* of the loop committed; the event received after that commit was published
\* by the idle flush.
C21_Witness ==
    /\ act.op = "timeout"
    /\ act.commit = "ok"
    /\ act.n = 1
    /\ counter = CommitEvery + 1
    /\ committed = working

\* The operations of a history that the walks buffered.
ByWalk(h) == SelectSeq(h, LAMBDA o : o.by = "walk")

\* C22: until every root is walked and committed no event is received: the
\* events sent meanwhile wait in the channel; the first event is received
\* with every root walked and every walk insert committed; and the buffered
\* operations are the walk inserts followed by the operations of the events
\* in the order received.
C22_WalksBeforeEvents ==
    /\ [](ipc \in {"unspawned", "new", "spawn", "writer", "walk", "walk_commit"} =>
             /\ obs.put = <<>>
             /\ applied = ByWalk(applied)
             /\ chan = Sent(obs.got))
    /\ [](applied = ByWalk(applied) \o EventOpsAll(obs.put))
    /\ [][(obs.put = <<>> /\ obs'.put # <<>>) =>
             /\ wroot = Len(paths)
             /\ ncommit = Len(applied)
             /\ applied = ByWalk(applied)
             /\ \A i \in DOMAIN paths :
                   \A p \in Readable(paths[i]) : BagIn(p, committed)]_vars

\* C22's case: two events were sent while the roots were walked; the walk of
\* the last root is made, and both events wait in the channel, none received.
C22_Witness ==
    /\ paths = <<RootR, RootS>>
    /\ ipc = "walk_commit"
    /\ wroot = 2
    /\ chan = <<Create(PB), Remove(PA)>>
    /\ obs.put = <<>>
    /\ Len(applied) = 4

\* The paths whose documents an event may change.
Touched(e) == IF e.kind = "Rename" THEN {e.p, e.d} ELSE {e.p}

\* C23: receiving a Remove or a Rename changes the number of documents of no
\* path but the event's own, those of the paths under a removed or renamed
\* directory included, and the event's paths change as the event says; and
\* Index::remove(p) takes p out of the result of every query and leaves every
\* other path of the result in it.
C23_OnlyNamedIdentityChanges ==
    /\ [][(/\ ipc = "recv" /\ ipc' # "recv" /\ chan # <<>>
           /\ Head(chan).kind \in {"Remove", "Rename"}) =>
             /\ \A x \in (DOMAIN working \cup DOMAIN working') \ Touched(Head(chan)) :
                   CopiesIn(x, working') = CopiesIn(x, working)
             /\ CopiesIn(Head(chan).p, working') = 0
             /\ Head(chan).kind = "Rename" =>
                   CopiesIn(Head(chan).d, working') = CopiesIn(Head(chan).d, working) + 1
             /\ committed' = committed]_vars
    /\ [][\A p \in FewPaths : DoRemove(p) =>
             \A q \in IndexQueries :
                 /\ Range(IndexQuery(data', q)) = Range(IndexQuery(data, q)) \ {p}
                 /\ Len(IndexQuery(data', q)) = Cardinality(Range(IndexQuery(data, q)) \ {p})]_vars

\* C23's case: Remove(/d/x) was received and committed, and /d/x/y is still
\* committed; /foo/bar/baz_1 was removed from an index that also holds
\* /foo/bar/baz_2, which shares two components with it.
C23_Witness ==
    /\ obs.put = <<Remove(PDX)>>
    /\ ncommit = Len(applied)
    /\ ~BagIn(PDX, committed)
    /\ BagIn(PDXY, committed)
    /\ BagIn(RootD, committed)
    /\ iact = [op |-> "remove", arg |-> Pb1, had |-> TRUE]
    /\ stored = {Pb2}

\* The map that holds exactly the paths of S, each under each of its normal
\* components.
MapOf(S) ==
    LET keys == UNION {Range(NormalComponents(p)) : p \in S}
    IN  [k \in keys |-> {p \in S : k \in Range(NormalComponents(p))}]

\* C24: after any calls of insert and remove no key holds an empty set, the
\* map holds a path under a key exactly when the path was inserted, not
\* removed since, and the key is one of its normal components; and inserting
\* and then removing a path that is not stored gives the map back.
C24_MapMatchesStored ==
    /\ \A k \in DOMAIN data : data[k] # {}
    /\ data = MapOf(stored)
    /\ \A p \in IndexPaths \ stored :
          IndexRemove(IndexInsert(data, IndexItemFrom(p)), IndexItemFrom(p)) = data

\* C24's case: /a/a, whose component is repeated, was stored and has been
\* removed while /a/b/c/d/e, which shares the key "a", stays stored.
C24_Witness ==
    /\ iact = [op |-> "remove", arg |-> PbTwice, had |-> TRUE]
    /\ Pb3 \in stored
    /\ <<"a">> \in DOMAIN data
    /\ data[<<"a">>] = {Pb3}

=============================================================================
